---- MODULE Spec2Model ----
(***************************************************************************)
(* InfraFix API (main.py): GET /health and POST /upload.                   *)
(*                                                                         *)
(* The state is the two storage directories (uploads/, processed/), the    *)
(* position and local variables of every /upload request being handled,    *)
(* and the response of the /health call in flight.  Requests are handled   *)
(* concurrently: a step of the model is one file-system or image-library   *)
(* call of one request.                                                    *)
(***************************************************************************)
EXTENDS Naturals, Sequences, FiniteSets

VARIABLES uploads, processed, reqs, health

vars == <<uploads, processed, reqs, health>>

\* Number of /upload requests a run of the model handles.
MaxRequests == 2

Requests == 1..MaxRequests

(***************************************************************************)
(* Inputs.  A filename is a sequence of pieces, "." and "/" being the      *)
(* separators; uploaded bytes are what Pillow can see of them: the format  *)
(* their header announces ("none" when they are no image), the pixel mode  *)
(* and whether the pixel data is all there.                                *)
(***************************************************************************)
Filenames ==
    { <<"photo", ".", "jpg">>,
      <<"photo", ".", "PNG">>,
      <<"photo">> }

EmptyBytes == [magic |-> "none", mode |-> "none", body |-> "empty"]

JpegRGB == [magic |-> "JPEG", mode |-> "RGB", body |-> "full"]

PngRGBA == [magic |-> "PNG", mode |-> "RGBA", body |-> "full"]

GifP == [magic |-> "GIF", mode |-> "P", body |-> "full"]

Payloads == {EmptyBytes, JpegRGB, PngRGBA, GifP}

\* uuid.uuid4().hex: tokens are opaque and only compared for equality, so the
\* k-th token drawn is written "uk".
TokenNames == <<"u1", "u2", "u3", "u4", "u5", "u6">>

(***************************************************************************)
(* Path(file.filename).suffix                                              *)
(***************************************************************************)
LastIndexOf(s, x) ==
    LET hits == {i \in 1..Len(s) : s[i] = x}
    IN  IF hits = {} THEN 0 ELSE CHOOSE i \in hits : \A j \in hits : j <= i

PathName(p) == SubSeq(p, LastIndexOf(p, "/") + 1, Len(p))

Suffix(filename) ==
    LET name == PathName(filename)
        i == LastIndexOf(name, ".")
    IN  IF 1 < i /\ i < Len(name) THEN SubSeq(name, i, Len(name)) ELSE <<>>

\* file_id = f"{uuid.uuid4().hex}{file_ext}"
FileId(token, filename) == <<token>> \o Suffix(filename)

(***************************************************************************)
(* Exceptions and the two kinds of response.                               *)
(***************************************************************************)
NoImage == [format |-> "none", mode |-> "none", src |-> EmptyBytes,
            sharpened |-> FALSE, text |-> "", font |-> "none"]

NoFile == [magic |-> "none", image |-> NoImage]

Exc(type, msg) == [type |-> type, msg |-> msg]

\* The mutant of IsException: `except OSError` (UnidentifiedImageError is one).
IsOSError(type) == type \in {"OSError", "UnidentifiedImageError"}

\* The classes `except Exception` catches, among those the handler can raise.
IsException(type) ==
    type \in {"OSError", "ValueError", "UnidentifiedImageError"}

NoResponse ==
    [status |-> 0, media_type |-> "none", filename |-> <<>>, path |-> <<>>,
     error |-> "", json |-> FALSE, body |-> NoFile]

\* JSONResponse(content={"error": str(e)}, status_code=500)
JSONResponse(msg, code) ==
    [NoResponse EXCEPT !.status = code, !.media_type = "application/json",
                       !.error = msg, !.json = TRUE]

\* An exception the handler lets through: the server's own plain 500.
ServerError ==
    [NoResponse EXCEPT !.status = 500, !.media_type = "text/plain"]

\* except Exception as e: return JSONResponse(...)
Catch(e) == IF IsException(e.type) THEN JSONResponse(e.msg, 500) ELSE ServerError

\* FileResponse(processed_path, media_type="image/png", filename=f"processed_{...}")
FileResponse(path, filename) ==
    [NoResponse EXCEPT !.status = 200, !.media_type = "image/png",
                       !.filename = <<"processed_">> \o filename, !.path = path]

\* No /health response is being read.
NoHealth == [status |-> 0, body |-> ""]

(***************************************************************************)
(* The image library calls.                                                *)
(***************************************************************************)
Ok(v) == [ok |-> TRUE, val |-> v, exc |-> Exc("none", "")]

Raise(type, msg) == [ok |-> FALSE, val |-> NoImage, exc |-> Exc(type, msg)]

\* The mutant of ImageOpen: bytes without a known header are taken as a PNG.
ImageOpenLenient(bytes) ==
    Ok([NoImage EXCEPT !.format = IF bytes.magic = "none" THEN "PNG" ELSE bytes.magic,
                       !.mode = IF bytes.mode = "none" THEN "RGB" ELSE bytes.mode,
                       !.src = bytes])

\* Image.open(upload_path): identifies the format from the header only.
ImageOpen(bytes) ==
    IF bytes.magic = "none"
    THEN Raise("UnidentifiedImageError", "cannot identify image file")
    ELSE Ok([NoImage EXCEPT !.format = bytes.magic, !.mode = bytes.mode,
                            !.src = bytes])

\* img.filter(ImageFilter.SHARPEN)
Sharpen(img) ==
    IF img.mode = "P" THEN Raise("ValueError", "cannot filter palette images")
    ELSE Ok([img EXCEPT !.sharpened = TRUE])

\* ImageFont.truetype("arial.ttf", 24): the font when arial.ttf is installed.
Truetype(installed) ==
    IF installed
    THEN [ok |-> TRUE, font |-> "arial.ttf", exc |-> Exc("none", "")]
    ELSE [ok |-> FALSE, font |-> "none", exc |-> Exc("OSError", "cannot open resource")]

\* ImageFont.load_default()
LoadDefault == [ok |-> TRUE, font |-> "default", exc |-> Exc("none", "")]

\* The mutant of LoadFont: the font is loaded without the fallback.
LoadFontNoFallback(installed) == Truetype(installed)

\* try: font = ImageFont.truetype("arial.ttf", 24)
\* except: font = ImageFont.load_default()
LoadFont(installed) ==
    LET t == Truetype(installed)
    IN  IF t.ok THEN t ELSE LoadDefault

\* draw.text((10, 10), "InfraFix AI Preview", fill="red", font=font)
DrawText(img, font) == [img EXCEPT !.text = "InfraFix AI Preview", !.font = font]

\* Lines 55-62: the mock processing block.
Process(img, installed) ==
    LET f == Sharpen(img)
        t == LoadFont(installed)
    IN  IF ~f.ok THEN f
        ELSE IF ~t.ok THEN Raise(t.exc.type, t.exc.msg)
        ELSE Ok(DrawText(f.val, t.font))

Lower(piece) ==
    CASE piece = "PNG" -> "png"
      [] piece = "JPG" -> "jpg"
      [] OTHER -> piece

\* processed_img.save(processed_path): the format comes from the path's extension.
SaveFormat(path) ==
    LET ext == Suffix(path)
        e == IF ext = <<>> THEN "" ELSE Lower(ext[Len(ext)])
    IN  CASE e \in {"jpg", "jpeg"} -> "JPEG"
          [] e = "png" -> "PNG"
          [] e = "gif" -> "GIF"
          [] OTHER -> "unknown"

\* What save() does without an I/O failure: the file written, or the exception.
Save(img, path) ==
    LET fmt == SaveFormat(path)
    IN  IF fmt = "unknown" THEN Raise("ValueError", "unknown file extension")
        ELSE IF fmt = "JPEG" /\ img.mode = "RGBA"
        THEN Raise("OSError", "cannot write mode RGBA as JPEG")
        ELSE Ok(img)

Encode(fmt, img) == [magic |-> fmt, image |-> img]

(***************************************************************************)
(* State.                                                                  *)
(*   uploads, processed  the two directories: file name -> content         *)
(*   reqs                per request: where the handler stands (pc), its   *)
(*                       arguments and locals, and its response            *)
(*   health              the /health response the client is reading        *)
(***************************************************************************)
Idle ==
    [pc |-> "idle", filename |-> <<>>, data |-> EmptyBytes, token |-> "",
     file_id |-> <<>>, img |-> NoImage, processed_img |-> NoImage,
     installed |-> FALSE, fault |-> "none", response |-> NoResponse]

\* Lines 11-20: both directories exist (mkdir(exist_ok=True)), here empty,
\* and no request has arrived.
Init ==
    /\ uploads = <<>>
    /\ processed = <<>>
    /\ reqs = [r \in Requests |-> Idle]
    /\ health = NoHealth

Put(store, name, content) ==
    [n \in DOMAIN store \cup {name} |-> IF n = name THEN content ELSE store[n]]

\* The mutant of Uuid4: every request draws the same token.
Uuid4Repeats == TokenNames[1]

\* uuid.uuid4().hex: a token no earlier request drew.
Uuid4 == TokenNames[Cardinality({q \in Requests : reqs[q].token # ""}) + 1]

\* An exception raised by request r's step reaches the handler's except.
Fail(r, e) ==
    reqs' = [reqs EXCEPT ![r].pc = "done", ![r].response = Catch(e)]

\* The OSError of a write on a full disk.
DiskFull == Exc("OSError", "No space left on device")

(***************************************************************************)
(* POST /upload                                                            *)
(***************************************************************************)
\* The mutant of WriteUpload: the bytes are checked before they are written.
WriteUploadValidated(r) ==
    /\ reqs[r].pc = "idle"
    /\ \A q \in Requests : q < r => reqs[q].pc # "idle"
    /\ \E fn \in Filenames, d \in Payloads :
          LET id == FileId(Uuid4, fn)
              o == ImageOpen(d)
          IN  /\ reqs' = [reqs EXCEPT ![r].pc = IF o.ok THEN "open" ELSE "done",
                                      ![r].filename = fn,
                                      ![r].data = d, ![r].token = Uuid4,
                                      ![r].file_id = id,
                                      ![r].response =
                                          IF o.ok THEN NoResponse ELSE Catch(o.exc)]
              /\ uploads' = IF o.ok THEN Put(uploads, id, d) ELSE uploads
    /\ UNCHANGED <<processed, health>>

\* Lines 41-46: derive the identifier and copy the upload to uploads/.
WriteUpload(r) ==
    /\ reqs[r].pc = "idle"
    /\ \A q \in Requests : q < r => reqs[q].pc # "idle"
    /\ \E fn \in Filenames, d \in Payloads :
          LET id == FileId(Uuid4, fn)
          IN  /\ reqs' = [reqs EXCEPT ![r].pc = "open", ![r].filename = fn,
                                      ![r].data = d, ![r].token = Uuid4,
                                      ![r].file_id = id]
              /\ uploads' = Put(uploads, id, d)
    /\ UNCHANGED <<processed, health>>

\* Lines 41-46 on a full disk: open() has made the file, the copy raises OSError.
WriteUploadFails(r) ==
    /\ reqs[r].pc = "idle"
    /\ \A q \in Requests : q < r => reqs[q].pc # "idle"
    /\ \E fn \in Filenames, d \in Payloads :
          LET id == FileId(Uuid4, fn)
          IN  /\ reqs' = [reqs EXCEPT ![r].pc = "done", ![r].filename = fn,
                                      ![r].data = d, ![r].token = Uuid4,
                                      ![r].file_id = id, ![r].fault = "write",
                                      ![r].response = Catch(DiskFull)]
              /\ uploads' = Put(uploads, id, EmptyBytes)
    /\ UNCHANGED <<processed, health>>

\* Line 49: Image.open(upload_path)
Open(r) ==
    /\ reqs[r].pc = "open"
    /\ LET o == ImageOpen(uploads[reqs[r].file_id])
       IN  IF o.ok
           THEN reqs' = [reqs EXCEPT ![r].pc = "process", ![r].img = o.val]
           ELSE Fail(r, o.exc)
    /\ UNCHANGED <<uploads, processed, health>>

\* Lines 55-62: sharpen, load the font, draw the text.
Filter(r) ==
    /\ reqs[r].pc = "process"
    /\ \E installed \in BOOLEAN :
          LET p == Process(reqs[r].img, installed)
          IN  IF p.ok
              THEN reqs' = [reqs EXCEPT ![r].pc = "save", ![r].processed_img = p.val,
                                        ![r].installed = installed]
              ELSE reqs' = [reqs EXCEPT ![r].pc = "done", ![r].installed = installed,
                                        ![r].response = Catch(p.exc)]
    /\ UNCHANGED <<uploads, processed, health>>

\* The mutant of ProcessedName: the processed file is named after the upload.
ProcessedNameFromFilename(r) == PathName(reqs[r].filename)

\* processed_path = PROCESSED_DIR / file_id
ProcessedName(r) == reqs[r].file_id

\* Lines 65-73: save to processed/ under the same identifier, build the response.
SaveProcessed(r) ==
    /\ reqs[r].pc = "save"
    /\ LET id == ProcessedName(r)
           s == Save(reqs[r].processed_img, id)
       IN  IF s.ok
           THEN /\ processed' = Put(processed, id, Encode(SaveFormat(id), s.val))
                /\ reqs' = [reqs EXCEPT ![r].pc = "send",
                                        ![r].response = FileResponse(id, reqs[r].filename)]
           ELSE /\ Fail(r, s.exc)
                /\ processed' = processed
    /\ UNCHANGED <<uploads, health>>

\* Line 66 on a full disk: save() raises OSError and removes the file it made.
SaveProcessedFails(r) ==
    /\ reqs[r].pc = "save"
    /\ Save(reqs[r].processed_img, ProcessedName(r)).ok
    /\ reqs' = [reqs EXCEPT ![r].pc = "done", ![r].fault = "save",
                            ![r].response = Catch(DiskFull)]
    /\ UNCHANGED <<uploads, processed, health>>

\* The mutant of Send: the processed file is deleted once it is sent.
SendThenUnlink(r) ==
    /\ reqs[r].pc = "send"
    /\ reqs' = [reqs EXCEPT ![r].pc = "done",
                            ![r].response.body = processed[reqs[r].response.path]]
    /\ processed' = [n \in DOMAIN processed \ {reqs[r].response.path} |-> processed[n]]
    /\ UNCHANGED <<uploads, health>>

\* The FileResponse is sent: the body is the file at processed_path.
Send(r) ==
    /\ reqs[r].pc = "send"
    /\ reqs' = [reqs EXCEPT ![r].pc = "done",
                            ![r].response.body = processed[reqs[r].response.path]]
    /\ UNCHANGED <<uploads, processed, health>>

(***************************************************************************)
(* GET /health                                                             *)
(***************************************************************************)
\* The mutant of HealthCheck: the answer depends on the uploads directory.
HealthCheckStorageAware ==
    IF DOMAIN uploads = {} THEN [status |-> 200, body |-> "ok"]
    ELSE [status |-> 503, body |-> "busy"]

\* Lines 31-34: return {"status": "ok"}
HealthCheck == [status |-> 200, body |-> "ok"]

Health ==
    /\ health = NoHealth
    /\ health' = HealthCheck
    /\ UNCHANGED <<uploads, processed, reqs>>

\* The client has read the /health response.
HealthRead ==
    /\ health # NoHealth
    /\ health' = NoHealth
    /\ UNCHANGED <<uploads, processed, reqs>>

Next ==
    \/ \E r \in Requests : WriteUpload(r)
    \/ \E r \in Requests : WriteUploadFails(r)
    \/ \E r \in Requests : Open(r)
    \/ \E r \in Requests : Filter(r)
    \/ \E r \in Requests : SaveProcessed(r)
    \/ \E r \in Requests : SaveProcessedFails(r)
    \/ \E r \in Requests : Send(r)
    \/ Health
    \/ HealthRead

Spec == Init /\ [][Next]_vars

(***************************************************************************)
(* Properties.                                                             *)
(***************************************************************************)
Done(r) == reqs[r].pc = "done"

\* The uploaded bytes are an image: they carry a header of a known format.
Decodable(d) == d.magic \in {"JPEG", "PNG", "GIF"}

Returned200(r) == reqs[r].pc \in {"send", "done"} /\ reqs[r].response.status = 200

\* C1: every finished /upload of bytes that are an image, whatever their
\* encoding and filename (and no disk failure), has status 200 and content
\* type image/png.
C1_ValidUploadReturnsPng ==
    \A r \in Requests :
        Done(r) /\ Decodable(reqs[r].data) /\ reqs[r].fault = "none"
            => /\ reqs[r].response.status = 200
               /\ reqs[r].response.media_type = "image/png"

\* C2: every finished /upload of bytes that are no image (a zero-byte file
\* included) has status 500 and a JSON body with a non-empty error, and
\* returns no processed image.
C2_UndecodableReturns500 ==
    \A r \in Requests :
        Done(r) /\ ~Decodable(reqs[r].data)
            => /\ reqs[r].response.status = 500
               /\ reqs[r].response.json
               /\ reqs[r].response.error # ""
               /\ reqs[r].response.body = NoFile
               /\ reqs[r].response.media_type # "image/png"

C2_Witness ==
    \E r \in Requests :
        /\ Done(r) /\ reqs[r].data = EmptyBytes /\ reqs[r].fault = "none"
        /\ reqs[r].response.status = 500
        /\ reqs[r].response.error = "cannot identify image file"

\* C3: every request ends in one of two outcomes: a 200 image response after
\* the upload was written, processed and saved, or a 500 JSON response
\* {"error": message}; no failure gives another status or shape, and a
\* request still running has sent nothing but that 200.
C3_TwoOutcomes ==
    \A r \in Requests :
        LET resp == reqs[r].response
        IN  /\ reqs[r].pc \in {"idle", "open", "process", "save"} => resp = NoResponse
            /\ reqs[r].pc \in {"send", "done"} =>
                  \/ /\ resp.status = 200
                     /\ resp.media_type = "image/png"
                     /\ ~resp.json /\ resp.error = ""
                     /\ reqs[r].processed_img.sharpened
                     /\ reqs[r].processed_img.text = "InfraFix AI Preview"
                     /\ reqs[r].file_id \in DOMAIN uploads
                     /\ resp.path \in DOMAIN processed
                     /\ Done(r) => resp.body = processed[resp.path]
                  \/ /\ Done(r)
                     /\ resp = JSONResponse(resp.error, 500)

C3_Witness ==
    \E r1, r2 \in Requests :
        /\ Done(r1) /\ reqs[r1].response.status = 200
        /\ Done(r2) /\ reqs[r2].response.status = 500
        /\ reqs[r2].response.error = "unknown file extension"

\* C4: every file in the PROCESSED store, and every body returned with a
\* 200, is PNG-encoded, whatever the upload's encoding and extension.
C4_ProcessedIsPng ==
    /\ \A n \in DOMAIN processed : processed[n].magic = "PNG"
    /\ \A r \in Requests :
          Done(r) /\ reqs[r].response.status = 200
              => reqs[r].response.body.magic = "PNG"

\* C5: every filename in the PROCESSED store is in the UPLOAD store too, and
\* each request that returned 200 has a file under its identifier in both.
C5_CorrelatedByName ==
    /\ DOMAIN processed \subseteq DOMAIN uploads
    /\ \A r \in Requests :
          Returned200(r) => /\ reqs[r].file_id \in DOMAIN uploads
                            /\ reqs[r].file_id \in DOMAIN processed

C5_Witness ==
    \E r1, r2 \in Requests :
        /\ r1 # r2
        /\ Done(r1) /\ reqs[r1].response.status = 200
        /\ reqs[r2].file_id \in DOMAIN uploads
        /\ reqs[r2].file_id \notin DOMAIN processed

\* C6: a /health call answers 200 {"status": "ok"} in every state, whatever
\* uploads came before or are running, and changes neither store nor any
\* request.
C6_HealthStatic ==
    /\ [](health = NoHealth => ENABLED Health)
    /\ [][health' # health =>
             /\ health' \in {NoHealth, [status |-> 200, body |-> "ok"]}
             /\ uploads' = uploads
             /\ processed' = processed
             /\ reqs' = reqs]_vars

C6_Witness ==
    /\ health = [status |-> 200, body |-> "ok"]
    /\ DOMAIN processed # {}
    /\ \E r \in Requests : reqs[r].pc \in {"open", "process", "save", "send"}

\* C7: when a request ends in 500 because its bytes did not decode, the
\* UPLOAD store holds those bytes under the request's identifier and the
\* PROCESSED store holds nothing under it.
C7_UploadWrittenBeforeDecode ==
    \A r \in Requests :
        Done(r) /\ reqs[r].fault = "none" /\ ~Decodable(reqs[r].data)
            => /\ reqs[r].response.status = 500
               /\ reqs[r].file_id \in DOMAIN uploads
               /\ uploads[reqs[r].file_id] = reqs[r].data
               /\ reqs[r].file_id \notin DOMAIN processed

C7_Witness ==
    \E r \in Requests :
        /\ Done(r) /\ reqs[r].fault = "none" /\ ~Decodable(reqs[r].data)
        /\ reqs[r].response.error = "cannot identify image file"
        /\ reqs[r].file_id \in DOMAIN uploads

Started == {r \in Requests : reqs[r].pc # "idle"}

Alone(fn, d, token, installed, fault) ==
    LET id == FileId(token, fn)
        o == ImageOpen(d)
        p == Process(o.val, installed)
        s == Save(p.val, id)
    IN  IF fault = "write" THEN Catch(DiskFull)
        ELSE IF ~o.ok THEN Catch(o.exc)
        ELSE IF ~p.ok THEN Catch(p.exc)
        ELSE IF ~s.ok THEN Catch(s.exc)
        ELSE IF fault = "save" THEN Catch(DiskFull)
        ELSE [FileResponse(id, fn) EXCEPT !.body = Encode(SaveFormat(id), s.val)]

\* C9: under any interleaving, every file is named by the identifier of
\* exactly one request, a request's files hold its own upload and the
\* processing of its own upload, and its response is the one it would get
\* handled alone.
C9_NoConflict ==
    /\ \A n \in DOMAIN uploads \cup DOMAIN processed :
          Cardinality({r \in Requests : reqs[r].file_id = n}) = 1
    /\ \A r \in Requests :
          /\ reqs[r].pc \in {"open", "process", "save", "send"}
                => uploads[reqs[r].file_id] = reqs[r].data
          /\ Returned200(r)
                => /\ uploads[reqs[r].file_id] = reqs[r].data
                   /\ processed[reqs[r].file_id].image.src = reqs[r].data
                   /\ processed[reqs[r].file_id].image = reqs[r].processed_img
          /\ Done(r)
                => reqs[r].response =
                       Alone(reqs[r].filename, reqs[r].data, reqs[r].token,
                             reqs[r].installed, reqs[r].fault)

C9_Witness ==
    \E r1, r2 \in Requests :
        /\ r1 < r2
        /\ reqs[r1].pc = "save"
        /\ Done(r2) /\ reqs[r2].response.status = 200
        /\ reqs[r1].file_id # reqs[r2].file_id

SameUpload(r1, r2) ==
    /\ reqs[r1].filename = reqs[r2].filename
    /\ reqs[r1].data = reqs[r2].data
    /\ reqs[r1].fault = reqs[r2].fault

\* C10: the font failing to load never fails the request: no response
\* carries the font's error, and two finished requests that differ only in
\* whether the font loaded have the same status, the same error and the
\* same stores written.
C10_FontFallback ==
    /\ \A r \in Requests : reqs[r].response.error # "cannot open resource"
    /\ \A r \in Requests :
          reqs[r].pc \in {"save", "send"} \/ Returned200(r)
              => reqs[r].processed_img.font
                     = IF reqs[r].installed THEN "arial.ttf" ELSE "default"
    /\ \A r1, r2 \in Requests :
          Done(r1) /\ Done(r2) /\ SameUpload(r1, r2)
              /\ reqs[r1].img # NoImage /\ reqs[r2].img # NoImage
              /\ reqs[r1].installed /\ ~reqs[r2].installed
              => /\ reqs[r1].response.status = reqs[r2].response.status
                 /\ reqs[r1].response.error = reqs[r2].response.error
                 /\ reqs[r1].response.media_type = reqs[r2].response.media_type
                 /\ (reqs[r1].file_id \in DOMAIN uploads)
                        = (reqs[r2].file_id \in DOMAIN uploads)
                 /\ (reqs[r1].file_id \in DOMAIN processed)
                        = (reqs[r2].file_id \in DOMAIN processed)

C10_Witness ==
    \E r1, r2 \in Requests :
        /\ Done(r1) /\ Done(r2) /\ SameUpload(r1, r2)
        /\ reqs[r1].installed /\ ~reqs[r2].installed
        /\ reqs[r1].response.status = 200
        /\ reqs[r2].response.status = 200
        /\ reqs[r2].response.body.image.font = "default"
====
